---- MODULE Spec2Model ----
(***************************************************************************)
(* M3U2strm3: the reconciliation pipeline of main.py (run_pipeline).       *)
(* A run scans the local media, parses and deduplicates the playlist,      *)
(* splits the entries by the pointer cache, asks the market classifier,    *)
(* writes pointer (.strm) files in batches, records the excluded entries,  *)
(* replaces the persisted pointer cache and cleans the output tree.        *)
(*                                                                         *)
(* Titles are sequences of tokens; a season/episode marker is one token.   *)
(* The functions of core, m3u_utils and strm_utils are modelled by their    *)
(* documented contracts.  main.py calls batch_write_strm_files without     *)
(* importing it; the call is modelled as reaching                          *)
(* strm_utils.batch_write_strm_files.                                      *)
(*                                                                         *)
(* Spec is run_pipeline with its ProgressTracker, the shutdown flag, store *)
(* operations that may raise and a batch writer that may report skips;     *)
(* CleanSpec is the runs in which no store operation raises and the writer *)
(* writes everything.  FaultSpec adds first passes in which single entries *)
(* raise, CrashSpec adds a process that dies in Phase 4 and the run after   *)
(* it, BatchSpec is one run on a playlist long enough for several batches.  *)
(* TrackerSpec is a client that drives a tracker call by call; ThreadSpec   *)
(* is threads that call update_stats concurrently and notify the            *)
(* registered observers, which may return, raise or never return.           *)
(* ReaderSpec is ThreadSpec with observers that read the tracker through    *)
(* its getters, which take the tracker's lock.  JobSpec is the              *)
(* ProcessingManager of background_tasks.py: submit_job, the processing     *)
(* loop task, stop_current_job and shutdown; FairJobSpec schedules the      *)
(* loop task fairly.                                                        *)
(***************************************************************************)
EXTENDS Integers, Sequences, FiniteSets, TLC

VARIABLES
    db_existing,      \* persisted table existing_media: key -> category (main.py:127)
    db_strm,          \* persisted table strm_cache: key -> record (main.py:480)
    disk,             \* pointer files under output_dir: path -> url (main.py:109)
    pc,               \* position of the control thread in run_pipeline
    runs,             \* number of runs started
    force_regenerate, \* argument of run_pipeline (main.py:75)
    existing,         \* result of this run's local media scan (main.py:124)
    m3u,              \* the parsed playlist, in file order (main.py:143)
    entries,          \* the deduplicated entries (main.py:183)
    strm_cache,       \* snapshot of the pointer cache read by this run (main.py:186, 267)
    to_check, reused_allowed, reused_excluded,   \* main.py:188-190
    allowed, excluded,                           \* main.py:231-242
    new_cache,        \* main.py:268
    file_operations,  \* the write set built by the first pass (main.py:370)
    i,                \* start index of the next batch, 0-based as range() (main.py:425)
    issued,           \* operations handed to the batch writer so far (main.py:432)
    last,             \* inputs of the run that an operator repeats, or NoLast
    written_count,    \* main.py:372, 433
    skipped_count,    \* main.py:373, 415, 434
    phases,           \* ProgressTracker._phases (progress_tracker.py:92)
    shutdown_flag,    \* ProgressTracker._shutdown_flag (progress_tracker.py:97)
    call,             \* the latest call a client made on the tracker, or NoCall
    calls,            \* number of calls clients made on the tracker
    current_phase,    \* ProgressTracker._current_phase of the tracker a client
                      \* drives (progress_tracker.py:93, 160), or "none"
    notified,         \* number of times the calls of that client reached
                      \* _notify_callbacks (progress_tracker.py:191, 214)
    lock,             \* ProgressTracker._lock: the thread that holds it, or 0
    stats,            \* ProgressTracker._stats: the pointer-file counters
                      \* (progress_tracker.py:68-70, 94)
    tpc,              \* position of every client thread inside update_stats
    kwargs,           \* the keyword arguments of every thread's update_stats call
    keys_left,        \* the kwargs items a thread's loop has still to visit
    reg,              \* the value a thread's getattr returned
    cb_index,         \* index of the callback a thread's notification loop is at
    worker,           \* state of the callback thread a notifying thread started
    abandoned,        \* callback threads left running after their join timed out
    waiting,          \* callback threads left behind that wait for the tracker lock
                      \* inside a getter
    passed,           \* per counter, the sum of the deltas passed so far
    raised,           \* per thread: a callback of its current call raised
    late,             \* per thread: its current call began with the shutdown flag set
    jobs,             \* ProcessingManager._jobs, in the order of insertion
                      \* (background_tasks.py:47, 121)
    current_job,      \* ProcessingManager._current_job: index into jobs, 0 for None
    processing_task,  \* ProcessingManager._processing_task (background_tasks.py:53)
    loop_tasks,       \* tasks of _processing_loop that were created and have not
                      \* ended (background_tasks.py:135)
    shutdown_event,   \* ProcessingManager._shutdown_event (background_tasks.py:54)
    stop_requested,   \* ProcessingManager._stop_requested (background_tasks.py:55)
    stop_result,      \* what the latest stop_current_job call returned, and for
                      \* which job
    errors,           \* ProcessingStats.errors of the run's tracker: the raw titles
                      \* named by the messages (progress_tracker.py:71, 238)
    log               \* what the run did so far to the pointer cache table and the
                      \* output tree, in order: "read", "write", "excluded",
                      \* "replace", "cleanup"

\* the tracker state used by clients other than run_pipeline
ClientSide == <<call, calls, current_phase, notified, lock, tpc, kwargs, keys_left, reg,
                cb_index, worker, abandoned, waiting, passed, raised, late>>

\* the state of the ProcessingManager of the web interface
ManagerSide == <<jobs, current_job, processing_task, loop_tasks, shutdown_event,
                 stop_requested, stop_result>>

ApiSide == <<ClientSide, ManagerSide>>

\* the persisted tables, the output tree and the locals of run_pipeline
PipelineSide == <<db_existing, db_strm, disk, pc, runs, force_regenerate, existing, m3u,
                  entries, strm_cache, to_check, reused_allowed, reused_excluded,
                  allowed, excluded, new_cache, file_operations, i, issued, last,
                  written_count, skipped_count, errors, log>>

vars == <<PipelineSide, phases, shutdown_flag, stats, ApiSide>>

----------------------------------------------------------------------------
(* Bounds of the model *)

MaxEntries == 2
MaxRuns == 2

\* calls that clients other than run_pipeline make on a tracker
MaxCalls == 3

\* largest total, processed value or delta such a client passes
MaxItems == 2

\* client threads that call update_stats concurrently
MaxThreads == 2

\* length of the playlists of the runs that are checked for their batches
MaxOperations == 3

\* jobs submitted to a ProcessingManager
MaxJobs == 3

\* batch_size of run_pipeline, scaled down from 50 to the size of the model
batch_size == 2

----------------------------------------------------------------------------
(* The playlist universe *)

T1080 == <<"Show", "S01E01", "1080p">>
T720 == <<"Show", "S01E01", "720p">>
TBare == <<"Show">>
TFilm == <<"Film">>

VODEntry(t, c, u) == [raw_title |-> t, category |-> c, url |-> u]

\* the entries the parser can produce
VODEntries ==
    { VODEntry(T1080, "TVSHOW", "http://a"), VODEntry(T720, "TVSHOW", "http://b"),
      VODEntry(TBare, "TVSHOW", "http://a"), VODEntry(TFilm, "MOVIE", "http://a"),
      VODEntry(TFilm, "DOCUMENTARY", "http://a"), VODEntry(TFilm, "REPLAY", "http://a") }

NoiseTokens == {"1080p", "720p"}

\* The tokens matched by [sS](\d{1,2})\s*[eE](\d{1,2}), with int() of the groups
SeasonEpisode == ("S01E01" :> <<1, 1>>)

NoPath == <<>>
EmptyMap == [x \in {} |-> 0]
NoCall ==
    [op |-> "none", phase |-> "none", total |-> 0, processed |-> 0, success |-> FALSE,
     skipped |-> FALSE, started_before |-> FALSE]
NoLast ==
    [set |-> FALSE, crashed |-> FALSE, force |-> FALSE, existing |-> EmptyMap, m3u |-> <<>>,
     verdict |-> {}]

----------------------------------------------------------------------------
(* Sequence helpers *)

Range(s) == { s[k] : k \in DOMAIN s }

RECURSIVE Filter(_, _)
Filter(s, keep) ==
    IF s = <<>> THEN <<>>
    ELSE (IF Head(s) \in keep THEN <<Head(s)>> ELSE <<>>) \o Filter(Tail(s), keep)

Min(a, b) == IF a < b THEN a ELSE b

----------------------------------------------------------------------------
(* Identity Resolver *)

\* re.search(r"[sS](\d{1,2})\s*[eE](\d{1,2})", raw_title): index of the first
\* marker token, 0 when there is none
MarkerAt(t) ==
    LET hits == { k \in DOMAIN t : t[k] \in DOMAIN SeasonEpisode }
    IN IF hits = {} THEN 0 ELSE CHOOSE k \in hits : \A h \in hits : k <= h

\* re.sub(r"[sS]\d{1,2}\s*[eE]\d{1,2}.*", "", raw_title).strip()
BaseOf(t) == IF MarkerAt(t) = 0 THEN t ELSE SubSeq(t, 1, MarkerAt(t) - 1)

RECURSIVE StripNoise(_)
StripNoise(t) ==
    IF t = <<>> THEN <<>>
    ELSE (IF Head(t) \in NoiseTokens THEN <<>> ELSE <<Head(t)>>) \o StripNoise(Tail(t))

canonical_movie_key(t) == [kind |-> "movie", name |-> StripNoise(t), season |-> 0, episode |-> 0]

canonical_tv_key(base, s, e) == [kind |-> "tv", name |-> base, season |-> s, episode |-> e]

make_cache_key(t) == [kind |-> "raw", name |-> t, season |-> 0, episode |-> 0]

\* sanitize_title only rewrites characters that no token of the model holds
sanitize_title(t) == t

\* The key computation repeated in run_pipeline for every stage
KeyOf(e) ==
    IF e.category \in {"MOVIE", "DOCUMENTARY"} THEN canonical_movie_key(e.raw_title)
    ELSE IF e.category = "TVSHOW" THEN
        IF MarkerAt(e.raw_title) # 0
        THEN canonical_tv_key(BaseOf(e.raw_title),
                              SeasonEpisode[e.raw_title[MarkerAt(e.raw_title)]][1],
                              SeasonEpisode[e.raw_title[MarkerAt(e.raw_title)]][2])
        ELSE make_cache_key(e.raw_title)
    ELSE make_cache_key(e.raw_title)

Keys == { KeyOf(e) : e \in VODEntries }

\* keys the local media scanner can report
ScanKeys == { k \in Keys : k.kind \in {"movie", "tv"} }

ScanCategory(k) == IF k.kind = "tv" THEN "TVEPISODE" ELSE "MOVIE"

----------------------------------------------------------------------------
(* Pointer paths (strm_utils) *)

movie_strm_path(e) == <<"Movies">> \o sanitize_title(e.raw_title)

doc_strm_path(e) == <<"Documentaries">> \o sanitize_title(e.raw_title)

tv_strm_path(title, s, e) ==
    <<"TV Shows">> \o sanitize_title(title) \o <<ToString(s), ToString(e)>>

PointerCategories == {"MOVIE", "TVSHOW", "DOCUMENTARY"}

\* rel_path of the first pass, for an entry of a pointer category
PathOf(e) ==
    IF e.category = "MOVIE" THEN movie_strm_path(e)
    ELSE IF e.category = "DOCUMENTARY" THEN doc_strm_path(e)
    ELSE IF MarkerAt(e.raw_title) # 0
         THEN tv_strm_path(BaseOf(e.raw_title),
                           SeasonEpisode[e.raw_title[MarkerAt(e.raw_title)]][1],
                           SeasonEpisode[e.raw_title[MarkerAt(e.raw_title)]][2])
         ELSE tv_strm_path(e.raw_title, 1, 1)

----------------------------------------------------------------------------
(* Small function helpers for the dict-valued state *)

Put(f, k, v) == [x \in DOMAIN f \cup {k} |-> IF x = k THEN v ELSE f[x]]

CachePaths(c) == { c[k].path : k \in DOMAIN c } \ {NoPath}

DictStep_FirstWins(d, e) ==
    [order |-> IF KeyOf(e) \in Range(d.order) THEN d.order ELSE Append(d.order, KeyOf(e)),
     val |-> IF KeyOf(e) \in DOMAIN d.val THEN d.val ELSE Put(d.val, KeyOf(e), e)]

\* a dict built by assigning seq[1], seq[2], ... under their keys: the order of
\* first insertion and the value last assigned
DictStep(d, e) ==
    [order |-> IF KeyOf(e) \in Range(d.order) THEN d.order ELSE Append(d.order, KeyOf(e)),
     val |-> Put(d.val, KeyOf(e), e)]

RECURSIVE UniqueEntries(_, _)
UniqueEntries(s, d) ==
    IF s = <<>> THEN d ELSE UniqueEntries(Tail(s), DictStep(d, Head(s)))

\* entries = list(unique_entries.values())
Dedup(s) ==
    LET d == UniqueEntries(s, [order |-> <<>>, val |-> EmptyMap])
    IN [k \in 1..Len(d.order) |-> d.val[d.order[k]]]

AllowedRecord_Disallowed(url, path) == [url |-> url, path |-> path, allowed |-> 0]

\* the record written for every operation of a batch
AllowedRecord(url, path) == [url |-> url, path |-> path, allowed |-> 1]

ExcludedRecord(url) == [url |-> url, path |-> NoPath, allowed |-> 0]

LookupClass_ExcludedRechecked(e, ex, cache) ==
    IF KeyOf(e) \in DOMAIN ex THEN "reused_allowed"
    ELSE IF KeyOf(e) \in DOMAIN cache /\ cache[KeyOf(e)].allowed = 1 THEN "reused_allowed"
    ELSE "to_check"

\* the three lists of the cache lookup before Market Filtering
LookupClass(e, ex, cache) ==
    IF KeyOf(e) \in DOMAIN ex THEN "reused_allowed"
    ELSE IF KeyOf(e) \in DOMAIN cache
         THEN (IF cache[KeyOf(e)].allowed = 1 THEN "reused_allowed" ELSE "reused_excluded")
         ELSE "to_check"

RECURSIVE SelectClass(_, _, _, _)
SelectClass(s, ex, cache, cls) ==
    IF s = <<>> THEN <<>>
    ELSE (IF LookupClass(Head(s), ex, cache) = cls THEN <<Head(s)>> ELSE <<>>)
         \o SelectClass(Tail(s), ex, cache, cls)

Skips_NoCacheCheck(key, ex, cache, force) == key \in DOMAIN ex

Skips_ForceBypassesExisting(key, ex, cache, force) ==
    ~force /\ (key \in DOMAIN ex \/ key \in DOMAIN cache)

Skips_IgnoresForce(key, ex, cache, force) == key \in DOMAIN ex \/ key \in DOMAIN cache

\* the skip test of the first pass
Skips(key, ex, cache, force) == key \in DOMAIN ex \/ (~force /\ key \in DOMAIN cache)

Operation(e) == [rel_path |-> PathOf(e), url |-> e.url, key |-> KeyOf(e), entry |-> e]

\* the first pass over allowed: the operations appended to file_operations
RECURSIVE BuildOperations(_, _, _, _)
BuildOperations(s, ex, cache, force) ==
    IF s = <<>> THEN <<>>
    ELSE (IF Head(s).category \in PointerCategories
             /\ ~Skips(KeyOf(Head(s)), ex, cache, force)
          THEN <<Operation(Head(s))>> ELSE <<>>)
         \o BuildOperations(Tail(s), ex, cache, force)

\* strm_utils.batch_write_strm_files: every operation writes its pointer file
RECURSIVE batch_write_strm_files(_, _)
batch_write_strm_files(d, batch) ==
    IF batch = <<>> THEN d
    ELSE batch_write_strm_files(Put(d, Head(batch).rel_path, Head(batch).url), Tail(batch))

\* the operations of a batch that the writer writes when it reports the
\* positions nw as skipped
RECURSIVE WrittenOps(_, _, _)
WrittenOps(batch, nw, n) ==
    IF batch = <<>> THEN <<>>
    ELSE (IF n \in nw THEN <<>> ELSE <<Head(batch)>>) \o WrittenOps(Tail(batch), nw, n + 1)

\* skipped_count after the first pass: the entries that met the skip test
RECURSIVE FirstPassSkips(_, _, _, _)
FirstPassSkips(s, ex, cache, force) ==
    IF s = <<>> THEN 0
    ELSE (IF Head(s).category \in PointerCategories
             /\ Skips(KeyOf(Head(s)), ex, cache, force) THEN 1 ELSE 0)
         + FirstPassSkips(Tail(s), ex, cache, force)

\* the entries of the first pass whose try block ends without an exception;
\* bad holds the positions that raise
RECURSIVE NotRaising(_, _, _)
NotRaising(s, bad, n) ==
    IF s = <<>> THEN <<>>
    ELSE (IF n \in bad THEN <<>> ELSE <<Head(s)>>) \o NotRaising(Tail(s), bad, n + 1)

add_error_Silent(errs, s, bad, n) == errs

\* "except Exception as ex: progress_tracker.add_error(...)": one message per
\* entry that raised, in the order of the loop
RECURSIVE add_error(_, _, _, _)
add_error(errs, s, bad, n) ==
    IF s = <<>> THEN errs
    ELSE add_error(IF n \in bad THEN Append(errs, Head(s).raw_title) ELSE errs,
                   Tail(s), bad, n + 1)

Slice_Overlapping(ops, n) ==
    SubSeq(ops, IF n = 0 THEN 1 ELSE n, Min(n + batch_size, Len(ops)))

\* "batch = file_operations[i:i + batch_size]"
Slice(ops, n) == SubSeq(ops, n + 1, Min(n + batch_size, Len(ops)))

\* the cache update that follows a batch
RECURSIVE RecordBatch(_, _)
RecordBatch(c, batch) ==
    IF batch = <<>> THEN c
    ELSE RecordBatch(Put(c, Head(batch).key, AllowedRecord(Head(batch).url, Head(batch).rel_path)),
                     Tail(batch))

RECURSIVE RecordExcluded_KeepsPrior(_, _)
RecordExcluded_KeepsPrior(c, s) ==
    IF s = <<>> THEN c
    ELSE RecordExcluded_KeepsPrior(
             IF KeyOf(Head(s)) \in DOMAIN c THEN c
             ELSE Put(c, KeyOf(Head(s)), ExcludedRecord(Head(s).url)),
             Tail(s))

\* the pass over excluded
RECURSIVE RecordExcluded(_, _)
RecordExcluded(c, s) ==
    IF s = <<>> THEN c
    ELSE RecordExcluded(Put(c, KeyOf(Head(s)), ExcludedRecord(Head(s).url)), Tail(s))

\* strm_utils.cleanup_strm_tree: delete every pointer file whose path is not a
\* path value of the cache it is given
cleanup_strm_tree(d, cache) == [p \in DOMAIN d \cap CachePaths(cache) |-> d[p]]

----------------------------------------------------------------------------
(* ProgressTracker (progress_tracker.py) *)

\* ProgressPhase, in the order of the enumeration
PhaseOrder == <<"SCANNING_LOCAL", "PARSING_M3U", "FILTERING_TMDB", "CREATING_STRM", "CLEANUP">>

ProgressPhase == Range(PhaseOrder)

\* PhaseProgress(phase, total): started and completed stand for started_at and
\* completed_at being set
PhaseProgress(total) ==
    [total |-> total, processed |-> 0, started |-> FALSE, completed |-> FALSE,
     success_count |-> 0, failure_count |-> 0, skipped_count |-> 0]

start_phase(ph, phase, total_items) ==
    LET progress == IF phase \in DOMAIN ph THEN ph[phase] ELSE PhaseProgress(total_items)
    IN Put(ph, phase, [progress EXCEPT !.started = TRUE, !.total = total_items,
                                        !.processed = 0])

update_phase(ph, phase, processed, success, skipped) ==
    IF phase \notin DOMAIN ph THEN ph
    ELSE [ph EXCEPT ![phase] =
             [@ EXCEPT !.processed = processed,
                       !.success_count = IF success THEN @ + 1 ELSE @,
                       !.failure_count = IF ~success /\ ~skipped THEN @ + 1 ELSE @,
                       !.skipped_count = IF skipped THEN @ + 1 ELSE @]]

batch_update_phase(ph, phase, processed, success_count, failure_count, skip_count) ==
    IF phase \notin DOMAIN ph THEN ph
    ELSE [ph EXCEPT ![phase] =
             [@ EXCEPT !.processed = processed,
                       !.success_count = @ + success_count,
                       !.failure_count = @ + failure_count,
                       !.skipped_count = @ + skip_count]]

complete_phase_Never(ph, phase) == ph

complete_phase(ph, phase) ==
    IF phase \in DOMAIN ph THEN [ph EXCEPT ![phase].completed = TRUE] ELSE ph

\* entering "with phase_context(phase):" and the start_phase call that opens
\* every phase body of run_pipeline
EnterPhase(ph, phase, total_items) ==
    start_phase(start_phase(ph, phase, 0), phase, total_items)

\* the pointer-file counters of ProcessingStats
StatKeys == {"strm_created", "strm_skipped", "strm_orphaned"}

\* ProcessingStats(): every counter starts at 0
ProcessingStats == [k \in StatKeys |-> 0]

\* update_stats(**kw) made by one thread alone: every named counter that
\* ProcessingStats has gets its delta
update_stats(st, kw) ==
    [k \in DOMAIN st |-> st[k] + (IF k \in DOMAIN kw THEN kw[k] ELSE 0)]

Exits_Never(flag) == FALSE

\* "if progress_tracker.is_shutdown_requested(): return"
Exits(flag) == flag

----------------------------------------------------------------------------
(* Inputs of a run *)

Playlists == UNION { [1..n -> VODEntries] : n \in 0..MaxEntries }

\* playlists long enough for a write set of more than one batch
LongPlaylists == [1..MaxOperations -> VODEntries]

Scans == UNION { [S -> {"MOVIE", "TVEPISODE"}] : S \in SUBSET ScanKeys }

ScanResults == { x \in Scans : \A k \in DOMAIN x : x[k] = ScanCategory(k) }

----------------------------------------------------------------------------
(* Threads that share one ProgressTracker *)

Threads == 1..MaxThreads

\* keyword names in the order a call passes them; "unknown" is no attribute
\* of ProcessingStats
KeyOrder == <<"strm_created", "strm_skipped", "unknown">>

\* the calls the threads make: update_stats(strm_created=d, strm_skipped=1) as
\* in the batch loop of run_pipeline, and update_stats(strm_skipped=d, unknown=1)
Kwargs ==
    { ("strm_created" :> d) @@ ("strm_skipped" :> 1) : d \in 1..MaxItems }
    \cup { ("strm_skipped" :> d) @@ ("unknown" :> 1) : d \in 1..MaxItems }

\* the registered observers: the progress display and the web tracker
Callbacks == <<"display", "web">>

ThreadInit ==
    /\ lock = 0
    /\ stats = ProcessingStats
    /\ tpc = [t \in Threads |-> "idle"]
    /\ kwargs = [t \in Threads |-> EmptyMap]
    /\ keys_left = [t \in Threads |-> <<>>]
    /\ reg = [t \in Threads |-> 0]
    /\ cb_index = [t \in Threads |-> 0]
    /\ worker = [t \in Threads |-> "none"]
    /\ abandoned = 0
    /\ waiting = 0
    /\ passed = [k \in StatKeys |-> 0]
    /\ raised = [t \in Threads |-> FALSE]
    /\ late = [t \in Threads |-> FALSE]

----------------------------------------------------------------------------
(* ProcessingManager (background_tasks.py) and its WebProgressTracker *)

\* a str and a member of the enumeration WebProgressPhase: Enum members
\* compare by identity, so no str equals a member
Str(v) == [type |-> "str", v |-> v]

Member(n) == [type |-> "WebProgressPhase", v |-> n]

\* "for phase in WebProgressPhase: self._web_phases[phase] = ...": the keys
web_phases ==
    { Member(n) : n \in {"IDLE", "UPLOADING", "CONFIGURING", "PROCESSING", "SCANNING_LOCAL",
                         "PARSING_M3U", "FILTERING_TMDB", "CREATING_STRM", "CLEANUP",
                         "COMPLETE", "ERROR"} }

\* start_web_phase(phase, total): "web_phase = self._web_phases[phase]" raises
\* KeyError for a phase that is no key of the dict
start_web_phase_raises(phase) == phase \notin web_phases

\* the configurations a client submits
Configs == {"config_a", "config_b"}

\* ProcessingJob(job_id, config, status="pending")
ProcessingJob(config) == [config |-> config, status |-> "pending", error_message |-> "none"]

NoStop == [ok |-> FALSE, job |-> 0]

ManagerInit ==
    /\ jobs = <<>>
    /\ current_job = 0
    /\ processing_task = "none"
    /\ loop_tasks = 0
    /\ shutdown_event = FALSE
    /\ stop_requested = FALSE
    /\ stop_result = NoStop

\* "self._processing_task and not self._processing_task.done()"
TaskAlive(task) == task = "alive"

NextPending_Last(js) ==
    LET pend == { j \in DOMAIN js : js[j].status = "pending" }
    IN IF pend = {} THEN 0 ELSE CHOOSE j \in pend : \A k \in pend : k <= j

\* "for job in self._jobs.values(): if job.status == 'pending': ... break":
\* the first pending job in the order of insertion, 0 when there is none
NextPending(js) ==
    LET pend == { j \in DOMAIN js : js[j].status = "pending" }
    IN IF pend = {} THEN 0 ELSE CHOOSE j \in pend : \A k \in pend : j <= k

StopStatus_Failed == "failed"

\* the status stop_current_job gives the job
StopStatus == "stopped"

\* "if self._current_job and self._current_job.status == 'running'"
CanStop(js, cur) == cur # 0 /\ js[cur].status = "running"

\* the jobs after the body of stop_current_job
Stopped(js, cur) ==
    IF CanStop(js, cur)
    THEN [js EXCEPT ![cur] = [@ EXCEPT !.status = StopStatus,
                                       !.error_message = "Stopped by user"]]
    ELSE js

----------------------------------------------------------------------------
(* The state machine *)

Init ==
    /\ db_existing = EmptyMap
    /\ db_strm = EmptyMap
    /\ disk = EmptyMap
    /\ pc = "idle"
    /\ runs = 0
    /\ force_regenerate = FALSE
    /\ existing = EmptyMap
    /\ m3u = <<>>
    /\ entries = <<>>
    /\ strm_cache = EmptyMap
    /\ to_check = <<>>
    /\ reused_allowed = <<>>
    /\ reused_excluded = <<>>
    /\ allowed = <<>>
    /\ excluded = <<>>
    /\ new_cache = EmptyMap
    /\ file_operations = <<>>
    /\ i = 0
    /\ issued = <<>>
    /\ last = NoLast
    /\ written_count = 0
    /\ skipped_count = 0
    /\ phases = EmptyMap
    /\ shutdown_flag = FALSE
    /\ errors = <<>>
    /\ log = <<>>
    /\ call = NoCall
    /\ calls = 0
    /\ current_phase = "none"
    /\ notified = 0
    /\ ThreadInit
    /\ ManagerInit

\* the locals of run_pipeline that its file and cache work leaves alone
Tracker == <<phases, shutdown_flag>>

Counts == <<written_count, skipped_count>>

\* run_pipeline(force) is entered and builds its ProgressTracker; n bounds the
\* number of runs
StartRunWithin(n) ==
    /\ pc = "idle"
    /\ runs < n
    /\ runs' = runs + 1
    /\ \E force \in (IF last.set THEN {last.force} ELSE BOOLEAN) : force_regenerate' = force
    /\ phases' = EmptyMap
    /\ shutdown_flag' = FALSE
    /\ stats' = ProcessingStats
    /\ errors' = <<>>
    /\ log' = <<>>
    /\ pc' = "scan"
    /\ UNCHANGED <<db_existing, db_strm, disk, existing, m3u, entries, strm_cache,
                   to_check, reused_allowed, reused_excluded, allowed, excluded,
                   new_cache, file_operations, i, issued, last, Counts, ApiSide>>

StartRun == StartRunWithin(MaxRuns)

\* tracker.shutdown() or tracker.cleanup() is called while the run is under way
RequestShutdown ==
    /\ pc \in {"scan", "parse", "lookup", "filter", "create", "batch", "replace", "cleanup"}
    /\ ~shutdown_flag
    /\ shutdown_flag' = TRUE
    /\ UNCHANGED <<db_existing, db_strm, disk, pc, runs, force_regenerate, existing,
                   m3u, entries, strm_cache, to_check, reused_allowed, reused_excluded,
                   allowed, excluded, new_cache, file_operations, i, issued, last,
                   Counts, phases, stats, errors, log, ApiSide>>

\* Phase 1 scans the media directories and replaces the existing-media table
ScanWith(scan) ==
    /\ pc = "scan"
    /\ IF Exits(shutdown_flag)
       THEN /\ phases' = complete_phase(EnterPhase(phases, "SCANNING_LOCAL", 0), "SCANNING_LOCAL")
            /\ pc' = "stopped"
            /\ UNCHANGED <<existing, db_existing>>
       ELSE /\ existing' = scan
            /\ db_existing' = scan
            /\ phases' = complete_phase(EnterPhase(phases, "SCANNING_LOCAL", 0), "SCANNING_LOCAL")
            /\ pc' = "parse"
    /\ UNCHANGED <<db_strm, disk, runs, force_regenerate, m3u, entries, strm_cache,
                   to_check, reused_allowed, reused_excluded, allowed, excluded,
                   new_cache, file_operations, i, issued, last, Counts, shutdown_flag, stats, errors, log, ApiSide>>

ScanLocalMedia == ~last.set /\ \E scan \in ScanResults : ScanWith(scan)

ScanAgain == last.set /\ ScanWith(last.existing)

\* Phase 2: parse the playlist and deduplicate it
ParseWith(playlist) ==
    /\ pc = "parse"
    /\ IF Exits(shutdown_flag)
       THEN /\ phases' = complete_phase(EnterPhase(phases, "PARSING_M3U", 0), "PARSING_M3U")
            /\ pc' = "stopped"
            /\ UNCHANGED <<m3u, entries>>
       ELSE /\ m3u' = playlist
            /\ entries' = Dedup(playlist)
            /\ phases' = complete_phase(
                             update_phase(EnterPhase(phases, "PARSING_M3U", 0), "PARSING_M3U",
                                          Len(Dedup(playlist)), TRUE, FALSE),
                             "PARSING_M3U")
            /\ pc' = "lookup"
    /\ UNCHANGED <<db_existing, db_strm, disk, runs, force_regenerate, existing,
                   strm_cache, to_check, reused_allowed, reused_excluded, allowed,
                   excluded, new_cache, file_operations, i, issued, last, Counts,
                   shutdown_flag, stats, errors, log, ApiSide>>

ParseM3U == ~last.set /\ \E playlist \in Playlists : ParseWith(playlist)

ParseAgain == last.set /\ ParseWith(last.m3u)

\* the cache lookup that splits the entries
CacheLookup ==
    /\ pc = "lookup"
    /\ strm_cache' = db_strm
    /\ log' = Append(log, "read")
    /\ to_check' = SelectClass(entries, existing, db_strm, "to_check")
    /\ reused_allowed' = SelectClass(entries, existing, db_strm, "reused_allowed")
    /\ reused_excluded' = SelectClass(entries, existing, db_strm, "reused_excluded")
    /\ pc' = "filter"
    /\ UNCHANGED <<db_existing, db_strm, disk, runs, force_regenerate, existing, m3u,
                   entries, allowed, excluded, new_cache, file_operations, i, issued,
                   last, Counts, Tracker, stats, errors, ApiSide>>

\* Phase 3: split_by_market_filter partitions to_check; verdict is the set of
\* entries the classifier allows
FilterWith(verdict) ==
    /\ pc = "filter"
    /\ IF Exits(shutdown_flag)
       THEN /\ phases' = complete_phase(EnterPhase(phases, "FILTERING_TMDB", Len(to_check)),
                                        "FILTERING_TMDB")
            /\ pc' = "stopped"
            /\ UNCHANGED <<allowed, excluded>>
       ELSE /\ allowed' = Filter(to_check, verdict) \o reused_allowed
            /\ excluded' = Filter(to_check, Range(to_check) \ verdict) \o reused_excluded
            /\ phases' = complete_phase(
                             update_phase(EnterPhase(phases, "FILTERING_TMDB", Len(to_check)),
                                          "FILTERING_TMDB", Len(to_check), TRUE, FALSE),
                             "FILTERING_TMDB")
            /\ pc' = "create"
    /\ UNCHANGED <<db_existing, db_strm, disk, runs, force_regenerate, existing, m3u,
                   entries, strm_cache, to_check, reused_allowed, reused_excluded,
                   new_cache, file_operations, i, issued, last, Counts, shutdown_flag, stats, errors, log, ApiSide>>

FilterMarket == ~last.set /\ \E verdict \in SUBSET Range(to_check) : FilterWith(verdict)

FilterAgain == last.set /\ FilterWith(Range(to_check) \cap last.verdict)

\* Phase 4, first pass: new_cache starts as a copy of the pointer cache and the
\* write set is computed; bad holds the positions of allowed at which the key
\* or path computation raises
FirstPassWith(bad) ==
    /\ pc = "create"
    /\ bad \subseteq { n \in DOMAIN allowed : allowed[n].category \in PointerCategories }
    /\ strm_cache' = db_strm
    /\ new_cache' = db_strm
    /\ phases' = EnterPhase(phases, "CREATING_STRM", Len(allowed))
    /\ file_operations' = BuildOperations(NotRaising(allowed, bad, 1), existing, db_strm,
                                          force_regenerate)
    /\ written_count' = 0
    /\ skipped_count' = FirstPassSkips(NotRaising(allowed, bad, 1), existing, db_strm,
                                       force_regenerate)
    /\ errors' = add_error(errors, allowed, bad, 1)
    /\ log' = Append(log, "read")
    /\ i' = 0
    /\ issued' = <<>>
    /\ pc' = "batch"
    /\ UNCHANGED <<db_existing, db_strm, disk, runs, force_regenerate, existing, m3u,
                   entries, to_check, reused_allowed, reused_excluded, allowed,
                   excluded, last, shutdown_flag, stats, ApiSide>>

\* no entry raises
FirstPass == FirstPassWith({})

\* the key or path computation of some allowed entries raises
FirstPassRaising == \E bad \in SUBSET (1..MaxEntries) \ {{}} : FirstPassWith(bad)

\* one iteration of the batch loop; nw holds the positions of the batch that
\* the writer reports as skipped, which it leaves unwritten
WriteBatchWith(nw) ==
    /\ pc = "batch"
    /\ i < Len(file_operations)
    /\ LET batch == Slice(file_operations, i)
           batch_written == Len(batch) - Cardinality(nw)
           batch_skipped == Cardinality(nw)
           current_processed == Min(i + batch_size, Len(file_operations))
       IN /\ nw \subseteq DOMAIN batch
          /\ disk' = batch_write_strm_files(disk, WrittenOps(batch, nw, 1))
          /\ written_count' = written_count + batch_written
          /\ skipped_count' = skipped_count + batch_skipped
          /\ new_cache' = RecordBatch(new_cache, batch)
          /\ phases' = batch_update_phase(phases, "CREATING_STRM",
                                          current_processed + skipped_count + batch_skipped,
                                          batch_written, 0, batch_skipped)
          /\ stats' = update_stats(stats, ("strm_created" :> batch_written)
                                           @@ ("strm_skipped" :> batch_skipped))
          /\ issued' = issued \o batch
    /\ i' = i + batch_size
    /\ log' = Append(log, "write")
    /\ UNCHANGED <<db_existing, db_strm, pc, runs, force_regenerate, existing, m3u,
                   entries, strm_cache, to_check, reused_allowed, reused_excluded,
                   allowed, excluded, file_operations, last, shutdown_flag, errors, ApiSide>>

\* the writer writes every operation of the batch
WriteBatch == WriteBatchWith({})

\* the writer reports some operations of the batch as skipped
WriteBatchSkipping == \E nw \in SUBSET (1..batch_size) \ {{}} : WriteBatchWith(nw)

\* the loop over excluded that ends Phase 4
ProcessExcluded ==
    /\ pc = "batch"
    /\ i >= Len(file_operations)
    /\ new_cache' = RecordExcluded(new_cache, excluded)
    /\ log' = Append(log, "excluded")
    /\ phases' = complete_phase(
                     update_phase(phases, "CREATING_STRM", Len(allowed), TRUE, FALSE),
                     "CREATING_STRM")
    /\ pc' = "replace"
    /\ UNCHANGED <<db_existing, db_strm, disk, runs, force_regenerate, existing, m3u,
                   entries, strm_cache, to_check, reused_allowed, reused_excluded,
                   allowed, excluded, file_operations, i, issued, last, Counts,
                   shutdown_flag, stats, errors, ApiSide>>

Replacement_PriorSnapshot == strm_cache

\* the mapping handed to cache.replace_strm_cache
Replacement == new_cache

\* cache.replace_strm_cache(new_cache)
ReplaceStrmCache ==
    /\ pc = "replace"
    /\ db_strm' = Replacement
    /\ log' = Append(log, "replace")
    /\ pc' = "cleanup"
    /\ UNCHANGED <<db_existing, disk, runs, force_regenerate, existing, m3u, entries,
                   strm_cache, to_check, reused_allowed, reused_excluded, allowed,
                   excluded, new_cache, file_operations, i, issued, last, Counts,
                   Tracker, stats, errors, ApiSide>>

CleanupArgument_PriorSnapshot == strm_cache

CleanupArgument_Fresh == EmptyMap

\* the cache handed to cleanup_strm_tree
CleanupArgument == new_cache

\* Phase 5: cleanup_strm_tree(output_dir, new_cache)
Cleanup ==
    /\ pc = "cleanup"
    /\ disk' = cleanup_strm_tree(disk, CleanupArgument)
    /\ log' = Append(log, "cleanup")
    /\ phases' = complete_phase(
                     update_phase(EnterPhase(phases, "CLEANUP", 0), "CLEANUP", 1, TRUE, FALSE),
                     "CLEANUP")
    /\ pc' = "done"
    /\ UNCHANGED <<db_existing, db_strm, runs, force_regenerate, existing, m3u, entries,
                   strm_cache, to_check, reused_allowed, reused_excluded, allowed,
                   excluded, new_cache, file_operations, i, issued, last, Counts,
                   shutdown_flag, stats, errors, ApiSide>>

\* the places where run_pipeline uses the cache store: SQLiteCache(db_path) and
\* replace_existing_media in Phase 1, strm_cache_dict before Phase 3 and
\* before Phase 4, replace_strm_cache after Phase 4
StoreAccess == {"scan", "lookup", "create", "replace"}

\* a store operation raises; nothing in run_pipeline catches it
StoreError ==
    /\ pc \in StoreAccess
    /\ pc = "scan" => ~Exits(shutdown_flag)
    /\ phases' = IF pc = "scan"
                 THEN complete_phase(EnterPhase(phases, "SCANNING_LOCAL", 0), "SCANNING_LOCAL")
                 ELSE phases
    /\ pc' = "aborted"
    /\ UNCHANGED <<db_existing, db_strm, disk, runs, force_regenerate, existing, m3u,
                   entries, strm_cache, to_check, reused_allowed, reused_excluded,
                   allowed, excluded, new_cache, file_operations, i, issued, last,
                   Counts, shutdown_flag, stats, errors, log, ApiSide>>

\* run_pipeline returns or raises: its locals and its tracker are gone
ReturnWith(keep) ==
    /\ pc \in {"done", "stopped", "aborted", "crashed"}
    /\ pc' = "idle"
    /\ last' = keep
    /\ force_regenerate' = FALSE
    /\ existing' = EmptyMap
    /\ m3u' = <<>>
    /\ entries' = <<>>
    /\ strm_cache' = EmptyMap
    /\ to_check' = <<>>
    /\ reused_allowed' = <<>>
    /\ reused_excluded' = <<>>
    /\ allowed' = <<>>
    /\ excluded' = <<>>
    /\ new_cache' = EmptyMap
    /\ file_operations' = <<>>
    /\ i' = 0
    /\ issued' = <<>>
    /\ written_count' = 0
    /\ skipped_count' = 0
    /\ phases' = EmptyMap
    /\ shutdown_flag' = FALSE
    /\ stats' = ProcessingStats
    /\ errors' = <<>>
    /\ log' = <<>>
    /\ UNCHANGED <<db_existing, db_strm, disk, runs, ApiSide>>

Return == ReturnWith(last)

\* the operator decides to run the program again on the same inputs
ReturnToRepeat ==
    /\ pc = "done"
    /\ ~last.set
    /\ runs < MaxRuns
    /\ ReturnWith([set |-> TRUE, crashed |-> FALSE, force |-> force_regenerate,
                   existing |-> existing, m3u |-> m3u,
                   verdict |-> Range(allowed) \cap Range(to_check)])

\* the steps of runs in which no store operation and no write fails
CleanNext ==
    \/ StartRun
    \/ RequestShutdown
    \/ ScanLocalMedia
    \/ ScanAgain
    \/ ParseM3U
    \/ ParseAgain
    \/ CacheLookup
    \/ FilterMarket
    \/ FilterAgain
    \/ FirstPass
    \/ WriteBatch
    \/ ProcessExcluded
    \/ ReplaceStrmCache
    \/ Cleanup
    \/ Return
    \/ ReturnToRepeat

CleanSpec == Init /\ [][CleanNext]_vars

Next ==
    \/ CleanNext
    \/ WriteBatchSkipping
    \/ StoreError

Spec == Init /\ [][Next]_vars

PersistedAtCrash_NewCache == new_cache

\* the pointer cache table when the process dies in Phase 4: the one
\* replace_strm_cache call of run_pipeline comes after the phase
PersistedAtCrash == db_strm

\* the process dies in the Creating Pointers phase: before or in the first
\* pass, between two batches, or inside a batch when the writer has written
\* the first j operations of it; nothing that is in memory survives
Crash ==
    /\ pc \in {"create", "batch"}
    /\ \E j \in 0..batch_size :
           /\ j > 0 => (pc = "batch" /\ i + j <= Len(file_operations))
           /\ disk' = IF j = 0 THEN disk
                      ELSE batch_write_strm_files(disk, SubSeq(file_operations, i + 1, i + j))
    /\ db_strm' = PersistedAtCrash
    /\ pc' = "crashed"
    /\ UNCHANGED <<db_existing, runs, force_regenerate, existing, m3u, entries, strm_cache,
                   to_check, reused_allowed, reused_excluded, allowed, excluded,
                   new_cache, file_operations, i, issued, last, Counts, Tracker, stats,
                   errors, log, ApiSide>>

\* the operator runs the program again on the inputs of the run that died
CrashToRepeat ==
    /\ pc = "crashed"
    /\ ~last.set
    /\ ReturnWith([set |-> TRUE, crashed |-> TRUE, force |-> force_regenerate,
                   existing |-> existing, m3u |-> m3u,
                   verdict |-> Range(allowed) \cap Range(to_check)])

\* the run that follows a run that died is one run more than MaxRuns allows
RestartAfterCrash ==
    /\ runs = MaxRuns
    /\ last.crashed
    /\ StartRunWithin(MaxRuns + 1)

\* runs that complete, runs that die in Phase 4 and the run after such a run
CrashNext ==
    \/ CleanNext
    \/ Crash
    \/ CrashToRepeat
    \/ RestartAfterCrash

CrashSpec == Init /\ [][CrashNext]_vars

\* the first run of the program
StartFirstRun == runs = 0 /\ StartRun

ParseLongM3U == ~last.set /\ \E playlist \in LongPlaylists : ParseWith(playlist)

\* one run on a long playlist, with a writer that may report skips
BatchNext ==
    \/ StartFirstRun
    \/ ScanLocalMedia
    \/ ParseLongM3U
    \/ CacheLookup
    \/ FilterMarket
    \/ FirstPass
    \/ WriteBatch
    \/ WriteBatchSkipping
    \/ ProcessExcluded
    \/ ReplaceStrmCache
    \/ Cleanup
    \/ Return

BatchSpec == Init /\ [][BatchNext]_vars

\* the runs in which, besides, single entries raise in the first pass
FaultNext ==
    \/ Next
    \/ FirstPassRaising

FaultSpec == Init /\ [][FaultNext]_vars

----------------------------------------------------------------------------
(* A client that drives a ProgressTracker call by call, as test_performance.py *)
(* does; the observers it notifies do not touch the phase map                *)

\* the phases such a client uses
ClientPhases == {"CREATING_STRM", "CLEANUP"}

Notifies_Always(ph, phase) == TRUE

\* "if phase not in self._phases: return" comes before _notify_callbacks in
\* update_phase and batch_update_phase
Notifies(ph, phase) == phase \in DOMAIN ph

\* one more call is made; c describes it
Called(c) ==
    /\ calls < MaxCalls
    /\ calls' = calls + 1
    /\ call' = c
    /\ UNCHANGED <<PipelineSide, ManagerSide, shutdown_flag, lock, stats, tpc, kwargs, keys_left,
                   reg, cb_index, worker, abandoned, waiting, passed, raised, late>>

ClientStartPhase ==
    \E phase \in ClientPhases, total \in 0..MaxItems :
        /\ phases' = start_phase(phases, phase, total)
        /\ current_phase' = phase
        /\ UNCHANGED notified
        /\ Called([NoCall EXCEPT !.op = "start_phase", !.phase = phase, !.total = total,
                                 !.started_before = phase \in DOMAIN phases])

ClientUpdatePhase ==
    \E phase \in ClientPhases, processed \in 0..MaxItems, success \in BOOLEAN,
       skipped \in BOOLEAN :
        /\ phases' = update_phase(phases, phase, processed, success, skipped)
        /\ notified' = IF Notifies(phases, phase) THEN notified + 1 ELSE notified
        /\ UNCHANGED current_phase
        /\ Called([NoCall EXCEPT !.op = "update_phase", !.phase = phase,
                                 !.processed = processed, !.success = success,
                                 !.skipped = skipped,
                                 !.started_before = phase \in DOMAIN phases])

ClientBatchUpdatePhase ==
    \E phase \in ClientPhases, processed \in 0..MaxItems, success_count \in 0..MaxItems,
       failure_count \in 0..1, skip_count \in 0..1 :
        /\ phases' = batch_update_phase(phases, phase, processed, success_count,
                                        failure_count, skip_count)
        /\ notified' = IF Notifies(phases, phase) THEN notified + 1 ELSE notified
        /\ UNCHANGED current_phase
        /\ Called([NoCall EXCEPT !.op = "batch_update_phase", !.phase = phase,
                                 !.processed = processed,
                                 !.started_before = phase \in DOMAIN phases])

ClientCompletePhase ==
    \E phase \in ClientPhases :
        /\ phases' = complete_phase(phases, phase)
        /\ UNCHANGED <<current_phase, notified>>
        /\ Called([NoCall EXCEPT !.op = "complete_phase", !.phase = phase,
                                 !.started_before = phase \in DOMAIN phases])

TrackerNext ==
    \/ ClientStartPhase
    \/ ClientUpdatePhase
    \/ ClientBatchUpdatePhase
    \/ ClientCompletePhase

TrackerSpec == Init /\ [][TrackerNext]_vars

----------------------------------------------------------------------------
(* update_stats called by concurrent threads, with the notification of the *)
(* observers that ends every update                                         *)

LockFree_Ignored(t) == TRUE

\* "with self._lock:" can be entered by thread t
LockFree(t) == lock = 0

JoinTimesOut_Never(w) == FALSE

\* thread.join(timeout=1.0) returns while the callback thread is still alive
JoinTimesOut(w) == w \in {"running", "blocked"}

Suppressed_Never(flag) == FALSE

\* "if self._shutdown_flag.is_set(): break" at the head of every iteration
Suppressed(flag) == flag

Propagates_Raise(w) == w = "raised"

\* callback_wrapper keeps the exception of the callback in exception[0]; the
\* notification loop logs it and goes on, nothing reaches update_stats
Propagates(w) == FALSE

\* thread t calls update_stats(**kw)
CallUpdateStats(t) ==
    /\ tpc[t] = "idle"
    /\ calls < MaxCalls
    /\ calls' = calls + 1
    /\ \E kw \in Kwargs :
           /\ kwargs' = [kwargs EXCEPT ![t] = kw]
           /\ keys_left' = [keys_left EXCEPT ![t] = Filter(KeyOrder, DOMAIN kw)]
           /\ passed' = [k \in StatKeys |-> passed[k] + (IF k \in DOMAIN kw THEN kw[k] ELSE 0)]
    /\ late' = [late EXCEPT ![t] = shutdown_flag]
    /\ tpc' = [tpc EXCEPT ![t] = "lock"]
    /\ UNCHANGED <<PipelineSide, ManagerSide, phases, shutdown_flag, call, current_phase, notified, lock, stats, reg, cb_index, worker,
                   abandoned, waiting, raised>>

Acquire(t) ==
    /\ tpc[t] = "lock"
    /\ LockFree(t)
    /\ lock' = t
    /\ tpc' = [tpc EXCEPT ![t] = "loop"]
    /\ UNCHANGED <<PipelineSide, ManagerSide, phases, shutdown_flag, call, current_phase, notified, calls, stats, kwargs,
                   keys_left, reg, cb_index, worker, abandoned, waiting, passed, raised, late>>

\* "for key, value in kwargs.items(): if hasattr(...)" and the getattr
GetAttr(t) ==
    /\ tpc[t] = "loop"
    /\ IF keys_left[t] = <<>>
       THEN /\ tpc' = [tpc EXCEPT ![t] = "notify"]
            /\ cb_index' = [cb_index EXCEPT ![t] = 1]
            /\ UNCHANGED <<keys_left, reg>>
       ELSE IF Head(keys_left[t]) \in StatKeys
       THEN /\ reg' = [reg EXCEPT ![t] = stats[Head(keys_left[t])]]
            /\ tpc' = [tpc EXCEPT ![t] = "setattr"]
            /\ UNCHANGED <<keys_left, cb_index>>
       ELSE /\ keys_left' = [keys_left EXCEPT ![t] = Tail(@)]
            /\ UNCHANGED <<tpc, reg, cb_index>>
    /\ UNCHANGED <<PipelineSide, ManagerSide, phases, shutdown_flag, call, current_phase, notified, calls, lock, stats, kwargs,
                   worker, abandoned, waiting, passed, raised, late>>

\* setattr(self._stats, key, <the value read> + value)
SetAttr(t) ==
    /\ tpc[t] = "setattr"
    /\ stats' = [stats EXCEPT ![Head(keys_left[t])] = reg[t] + kwargs[t][Head(keys_left[t])]]
    /\ keys_left' = [keys_left EXCEPT ![t] = Tail(@)]
    /\ tpc' = [tpc EXCEPT ![t] = "loop"]
    /\ UNCHANGED <<PipelineSide, ManagerSide, phases, shutdown_flag, call, current_phase, notified, calls, lock, kwargs, reg, cb_index,
                   worker, abandoned, waiting, passed, raised, late>>

\* _notify_callbacks: the head of one iteration of its loop
Notify(t) ==
    /\ tpc[t] = "notify"
    /\ IF cb_index[t] > Len(Callbacks) \/ Suppressed(shutdown_flag)
       THEN /\ tpc' = [tpc EXCEPT ![t] = "release"]
            /\ UNCHANGED worker
       ELSE /\ worker' = [worker EXCEPT ![t] = "running"]
            /\ tpc' = [tpc EXCEPT ![t] = "join"]
    /\ UNCHANGED <<PipelineSide, ManagerSide, phases, shutdown_flag, call, current_phase, notified, calls, lock, stats, kwargs,
                   keys_left, reg, cb_index, abandoned, waiting, passed, raised, late>>

\* the callback returns on its own thread
WorkerReturns(t) ==
    /\ worker[t] = "running"
    /\ worker' = [worker EXCEPT ![t] = "done"]
    /\ UNCHANGED <<PipelineSide, ManagerSide, phases, shutdown_flag, call, current_phase, notified, calls, lock, stats, tpc,
                   kwargs, keys_left, reg, cb_index, abandoned, waiting, passed, raised, late>>

\* the callback raises on its own thread
WorkerRaises(t) ==
    /\ worker[t] = "running"
    /\ worker' = [worker EXCEPT ![t] = "raised"]
    /\ UNCHANGED <<PipelineSide, ManagerSide, phases, shutdown_flag, call, current_phase, notified, calls, lock, stats, tpc,
                   kwargs, keys_left, reg, cb_index, abandoned, waiting, passed, raised, late>>

\* join returns because the callback thread ended; "if exception[0]:" logs
JoinDone(t) ==
    /\ tpc[t] = "join"
    /\ worker[t] \in {"done", "raised"}
    /\ worker' = [worker EXCEPT ![t] = "none"]
    /\ raised' = [raised EXCEPT ![t] = @ \/ worker[t] = "raised"]
    /\ IF Propagates(worker[t])
       THEN /\ tpc' = [tpc EXCEPT ![t] = "release"]
            /\ UNCHANGED cb_index
       ELSE /\ cb_index' = [cb_index EXCEPT ![t] = @ + 1]
            /\ tpc' = [tpc EXCEPT ![t] = "notify"]
    /\ UNCHANGED <<PipelineSide, ManagerSide, phases, shutdown_flag, call, current_phase, notified, calls, lock, stats, kwargs,
                   keys_left, reg, abandoned, waiting, passed, late>>

\* join returns after its timeout; the callback thread is left running
JoinTimeout(t) ==
    /\ tpc[t] = "join"
    /\ JoinTimesOut(worker[t])
    /\ IF worker[t] = "blocked"
       THEN waiting' = waiting + 1 /\ UNCHANGED abandoned
       ELSE abandoned' = abandoned + 1 /\ UNCHANGED waiting
    /\ worker' = [worker EXCEPT ![t] = "none"]
    /\ cb_index' = [cb_index EXCEPT ![t] = @ + 1]
    /\ tpc' = [tpc EXCEPT ![t] = "notify"]
    /\ UNCHANGED <<PipelineSide, ManagerSide, phases, shutdown_flag, call, current_phase, notified, calls, lock, stats, kwargs,
                   keys_left, reg, passed, raised, late>>

\* a callback thread that was left running ends
AbandonedReturns ==
    /\ abandoned > 0
    /\ abandoned' = abandoned - 1
    /\ UNCHANGED <<PipelineSide, ManagerSide, phases, shutdown_flag, call, current_phase, notified, calls, lock, stats, tpc,
                   kwargs, keys_left, reg, cb_index, worker, waiting, passed, raised, late>>

\* the "with self._lock:" block of update_stats is left and the call returns
Release(t) ==
    /\ tpc[t] = "release"
    /\ lock' = 0
    /\ tpc' = [tpc EXCEPT ![t] = "idle"]
    /\ kwargs' = [kwargs EXCEPT ![t] = EmptyMap]
    /\ reg' = [reg EXCEPT ![t] = 0]
    /\ cb_index' = [cb_index EXCEPT ![t] = 0]
    /\ raised' = [raised EXCEPT ![t] = FALSE]
    /\ late' = [late EXCEPT ![t] = FALSE]
    /\ UNCHANGED <<PipelineSide, ManagerSide, phases, shutdown_flag, call, current_phase, notified, calls, stats, keys_left,
                   worker, abandoned, waiting, passed>>

\* some thread calls tracker.shutdown()
ThreadShutdown ==
    /\ ~shutdown_flag
    /\ shutdown_flag' = TRUE
    /\ UNCHANGED <<PipelineSide, ManagerSide, phases, stats, ApiSide>>

\* the steps thread t takes by itself once it is inside update_stats
Run(t) ==
    \/ Acquire(t)
    \/ GetAttr(t)
    \/ SetAttr(t)
    \/ Notify(t)
    \/ JoinDone(t)
    \/ JoinTimeout(t)
    \/ Release(t)

ThreadNext ==
    \/ \E t \in Threads : CallUpdateStats(t)
    \/ \E t \in Threads : Run(t)
    \/ \E t \in Threads : WorkerReturns(t)
    \/ \E t \in Threads : WorkerRaises(t)
    \/ AbandonedReturns
    \/ ThreadShutdown

ThreadSpec == Init /\ [][ThreadNext]_vars

\* every thread that can take a step is scheduled again
FairThreadSpec == ThreadSpec /\ \A t \in Threads : WF_vars(Run(t))

----------------------------------------------------------------------------
(* The ProcessingManager: its coroutines run on one event loop, and none of *)
(* the bodies below awaits anything that suspends it, so each is one step    *)

\* submit_job(config), with _start_processing when there is no current job
submit_job ==
    /\ Len(jobs) < MaxJobs
    /\ \E config \in Configs : jobs' = Append(jobs, ProcessingJob(config))
    /\ IF current_job = 0 /\ ~TaskAlive(processing_task)
       THEN processing_task' = "alive" /\ loop_tasks' = loop_tasks + 1
       ELSE UNCHANGED <<processing_task, loop_tasks>>
    /\ UNCHANGED <<PipelineSide, phases, shutdown_flag, stats, ClientSide, current_job,
                   shutdown_event, stop_requested, stop_result>>

\* the event loop runs the task of _processing_loop: with the shutdown event
\* set the loop ends; else it takes the next pending job into _execute_job,
\* which makes it the current job with status running and calls
\* start_web_phase("PROCESSING", 100); the KeyError of that call leaves
\* _execute_job before its try block and ends the loop in its "except
\* Exception"; with no pending job the loop sleeps
processing_loop ==
    /\ loop_tasks > 0
    /\ IF shutdown_event
       THEN /\ loop_tasks' = loop_tasks - 1
            /\ processing_task' = IF loop_tasks = 1 THEN "done" ELSE processing_task
            /\ UNCHANGED <<jobs, current_job>>
       ELSE IF NextPending(jobs) # 0
       THEN /\ current_job' = NextPending(jobs)
            /\ jobs' = [jobs EXCEPT ![NextPending(jobs)].status = "running"]
            /\ start_web_phase_raises(Str("PROCESSING"))
            /\ loop_tasks' = loop_tasks - 1
            /\ processing_task' = IF loop_tasks = 1 THEN "done" ELSE processing_task
       ELSE UNCHANGED <<jobs, current_job, processing_task, loop_tasks>>
    /\ UNCHANGED <<PipelineSide, phases, shutdown_flag, stats, ClientSide, shutdown_event,
                   stop_requested, stop_result>>

\* stop_current_job()
stop_current_job ==
    /\ jobs' = Stopped(jobs, current_job)
    /\ stop_requested' = (stop_requested \/ CanStop(jobs, current_job))
    /\ stop_result' = [ok |-> CanStop(jobs, current_job),
                       job |-> IF CanStop(jobs, current_job) THEN current_job ELSE 0]
    /\ UNCHANGED <<PipelineSide, phases, shutdown_flag, stats, ClientSide, current_job,
                   processing_task, loop_tasks, shutdown_event>>

\* shutdown(): sets the event, stops the current job, cancels the loop task
shutdown ==
    /\ ~shutdown_event
    /\ shutdown_event' = TRUE
    /\ jobs' = Stopped(jobs, current_job)
    /\ stop_requested' = (stop_requested \/ CanStop(jobs, current_job))
    /\ IF TaskAlive(processing_task)
       THEN processing_task' = "done" /\ loop_tasks' = loop_tasks - 1
       ELSE UNCHANGED <<processing_task, loop_tasks>>
    /\ UNCHANGED <<PipelineSide, phases, shutdown_flag, stats, ClientSide, current_job,
                   stop_result>>

JobNext ==
    \/ submit_job
    \/ processing_loop
    \/ stop_current_job
    \/ shutdown

JobSpec == Init /\ [][JobNext]_vars

\* the event loop runs every task that is ready
FairJobSpec == JobSpec /\ WF_vars(processing_loop)

----------------------------------------------------------------------------
(* Observers that read the tracker: the callbacks of the progress displays *)
(* and of the web tracker call get_current_phase and get_stats              *)

\* "with self._lock:" of a getter, entered by a callback thread: the lock is
\* an RLock, which only the thread that holds it can enter again
GetterEnters(holder) == holder = 0

\* the callback that thread t started calls get_current_phase
WorkerReads(t) ==
    /\ worker[t] = "running"
    /\ worker' = [worker EXCEPT ![t] = "blocked"]
    /\ UNCHANGED <<PipelineSide, ManagerSide, phases, shutdown_flag, call, current_phase, notified, calls, lock, stats, tpc,
                   kwargs, keys_left, reg, cb_index, abandoned, waiting, passed, raised, late>>

\* a callback thread that was left running calls get_current_phase
AbandonedReads ==
    /\ abandoned > 0
    /\ abandoned' = abandoned - 1
    /\ waiting' = waiting + 1
    /\ UNCHANGED <<PipelineSide, ManagerSide, phases, shutdown_flag, call, current_phase, notified, calls, lock, stats, tpc,
                   kwargs, keys_left, reg, cb_index, worker, passed, raised, late>>

\* a callback thread that waits in a getter enters the lock, reads, leaves the
\* lock and returns; who is the thread that joins it, or 0 for a callback
\* thread that was left behind
ReaderGetsLock ==
    \E who \in {0} \cup { t \in Threads : worker[t] = "blocked" } :
        /\ GetterEnters(lock)
        /\ IF who = 0
           THEN /\ waiting > 0
                /\ waiting' = waiting - 1
                /\ UNCHANGED worker
           ELSE /\ worker' = [worker EXCEPT ![who] = "done"]
                /\ UNCHANGED waiting
        /\ UNCHANGED <<PipelineSide, ManagerSide, phases, shutdown_flag, call, current_phase, notified, calls, lock, stats, tpc,
                       kwargs, keys_left, reg, cb_index, abandoned, passed, raised, late>>

\* threads that update the tracker while the registered observers are
\* callbacks that return early (throttled, shutdown seen) or read the tracker
ReaderNext ==
    \/ \E t \in Threads : CallUpdateStats(t)
    \/ \E t \in Threads : Run(t)
    \/ \E t \in Threads : WorkerReturns(t)
    \/ \E t \in Threads : WorkerReads(t)
    \/ AbandonedReturns
    \/ AbandonedReads
    \/ ReaderGetsLock
    \/ ThreadShutdown

ReaderSpec == Init /\ [][ReaderNext]_vars

----------------------------------------------------------------------------
(* Properties of a run *)

EntryKeys == { KeyOf(e) : e \in Range(entries) }

\* the conditions the specification gives for skip-unchanged
Unchanged(e) ==
    /\ ~force_regenerate
    /\ KeyOf(e) \in DOMAIN strm_cache
    /\ strm_cache[KeyOf(e)].allowed = 1
    /\ strm_cache[KeyOf(e)].url = e.url
    /\ strm_cache[KeyOf(e)].path = PathOf(e)

\* C1: at the end of a run, every entry whose key is in the existing-media
\* index has in the persisted pointer cache exactly the record
\* {url: its url, path: null, allowed: true}.
C1_ExistingMediaRecord ==
    pc = "done" =>
        \A e \in Range(entries) :
            KeyOf(e) \in DOMAIN existing =>
                /\ KeyOf(e) \in DOMAIN db_strm
                /\ db_strm[KeyOf(e)] = [url |-> e.url, path |-> NoPath, allowed |-> 1]

C3_OnlyThisRunsKeys ==
    pc = "done" => DOMAIN db_strm \subseteq EntryKeys

LastIndexOf(k) ==
    CHOOSE n \in DOMAIN m3u :
        /\ KeyOf(m3u[n]) = k
        /\ \A n2 \in DOMAIN m3u : KeyOf(m3u[n2]) = k => n2 <= n

\* C6: after deduplication the entry list has one entry per distinct key of the
\* parsed playlist, and it is the last entry in file order with that key.
C6_DedupLastWins ==
    pc \notin {"idle", "parse"} =>
        LET ks == { KeyOf(m3u[n]) : n \in DOMAIN m3u }
        IN /\ Len(entries) = Cardinality(ks)
           /\ \A k \in ks :
                  \E j \in DOMAIN entries :
                      /\ entries[j] = m3u[LastIndexOf(k)]
                      /\ \A j2 \in DOMAIN entries : KeyOf(entries[j2]) = k => j2 = j

C6_Witness ==
    /\ pc = "lookup"
    /\ m3u = <<VODEntry(T1080, "TVSHOW", "http://a"), VODEntry(T720, "TVSHOW", "http://b")>>
    /\ entries = <<VODEntry(T720, "TVSHOW", "http://b")>>

\* C7: no entry whose key is in the existing-media index is sent to the
\* classifier, put in the write set or handed to the batch writer, under
\* force-regenerate too and whatever its prior cache record.
C7_ExistingNeverWritten ==
    /\ \A e \in Range(to_check) : KeyOf(e) \notin DOMAIN existing
    /\ \A op \in Range(file_operations) \cup Range(issued) : op.key \notin DOMAIN existing

C7_Witness ==
    /\ pc = "done"
    /\ force_regenerate
    /\ issued # <<>>
    /\ \E e \in Range(entries) :
           /\ KeyOf(e) \in DOMAIN existing
           /\ KeyOf(e) \in DOMAIN strm_cache
           /\ strm_cache[KeyOf(e)].path # NoPath

C9_OrphanInvariant ==
    pc = "done" => DOMAIN disk \subseteq CachePaths(db_strm)

C9_Witness ==
    /\ pc = "done"
    /\ DOMAIN disk # {}
    /\ \E k \in DOMAIN strm_cache :
           /\ strm_cache[k].path # NoPath
           /\ strm_cache[k].path \notin DOMAIN disk

C12_ExcludedHasNoPath ==
    \A c \in {db_strm, new_cache} :
        \A k \in DOMAIN c : c[k].allowed = 0 => c[k].path = NoPath

C12_Witness ==
    /\ pc = "done"
    /\ reused_excluded # <<>>
    /\ issued # <<>>
    /\ \E k \in DOMAIN db_strm : db_strm[k].allowed = 0 /\ db_strm[k] # strm_cache[k]
    /\ \E k \in DOMAIN db_strm : db_strm[k].allowed = 1 /\ db_strm[k].path # NoPath

\* C13: when an operation of the cache store fails and the run aborts, no
\* progress phase has been started and no operation has been handed to the
\* pointer-file writer.
C13_FatalStoreError ==
    pc = "aborted" => (phases = EmptyMap /\ issued = <<>>)

C15_CooperativeCancellation ==
    [][shutdown_flag =>
           (Len(issued') <= Len(issued) /\ DOMAIN disk \subseteq DOMAIN disk')]_vars

PhaseIndex(p) == CHOOSE k \in DOMAIN PhaseOrder : PhaseOrder[k] = p

\* the positions of run_pipeline that open with a shutdown check
CheckPoints == {"scan", "parse", "filter"}

\* C16: a phase is started only when every earlier phase of the fixed order
\* has been started and completed; a shutdown check that finds the flag set
\* ends the run, and after that exit no phase is started.
C16_PhaseOrder ==
    [][/\ \A p \in DOMAIN phases' \ DOMAIN phases :
            \A q \in ProgressPhase :
                PhaseIndex(q) < PhaseIndex(p) => (q \in DOMAIN phases /\ phases[q].completed)
       /\ (shutdown_flag /\ pc \in CheckPoints) => pc' = "stopped"
       /\ pc = "stopped" => DOMAIN phases' \subseteq DOMAIN phases]_vars

C16_Witness ==
    /\ pc = "stopped"
    /\ runs = 2
    /\ to_check # <<>>
    /\ DOMAIN phases = {"SCANNING_LOCAL", "PARSING_M3U", "FILTERING_TMDB"}
    /\ \A p \in DOMAIN phases : phases[p].completed

\* C17: every update_phase call on a started phase raises the sum
\* success_count + failure_count + skipped_count of that phase by exactly one,
\* whatever its success and skipped arguments.
C17_UpdateCountsOne ==
    [][(call'.op = "update_phase" /\ call'.phase \in DOMAIN phases) =>
           LET before == phases[call'.phase]
               after == phases'[call'.phase]
           IN after.success_count + after.failure_count + after.skipped_count
              = before.success_count + before.failure_count + before.skipped_count + 1]_vars

\* C18: right after start_phase on a phase that had been started before, the
\* phase has the new total, processed 0 and success, failure and skipped
\* counts 0.
C18_ReentryResets ==
    (call.op = "start_phase" /\ call.started_before) =>
        /\ phases[call.phase].total = call.total
        /\ phases[call.phase].processed = 0
        /\ phases[call.phase].success_count = 0
        /\ phases[call.phase].failure_count = 0
        /\ phases[call.phase].skipped_count = 0

\* C19: whenever no thread is inside update_stats, every statistics counter
\* equals its initial value 0 plus the sum of the deltas passed for it.
C19_AdditiveStats ==
    (\A t \in Threads : tpc[t] = "idle") =>
        \A k \in StatKeys : stats[k] = passed[k]

C19_Witness ==
    /\ \A t \in Threads : tpc[t] = "idle"
    /\ calls = MaxCalls
    /\ stats["strm_created"] >= 3
    /\ stats["strm_skipped"] >= 3

\* C20: every update_stats call returns to its caller, also when a callback
\* it started never returns.
C20_UpdateReturns ==
    \A t \in Threads : (tpc[t] # "idle") ~> (tpc[t] = "idle")

C20_Witness ==
    /\ \A t \in Threads : tpc[t] = "idle"
    /\ abandoned >= 2
    /\ calls >= 2

C24_SkippedCount ==
    pc = "done" => stats["strm_skipped"] = Len(allowed) - written_count

\* the allowed entries whose first-pass try block raised: the entries that the
\* messages of the statistics name
Raised(e) == e.category \in PointerCategories /\ e.raw_title \in Range(errors)

At(ev) == { n \in DOMAIN log : log[n] = ev }

\* C28: in one run every read of the persisted pointer cache comes before the
\* first pointer-file write; the persisted cache is replaced at most once, and
\* exactly once when the run reaches the cleanup, after every write batch and
\* after the excluded-entry pass; the cleanup comes after the replacement and
\* is given the mapping that was persisted.
C28_ReadBeforeWrite ==
    /\ \A r \in At("read"), w \in At("write") : r < w
    /\ Cardinality(At("replace")) <= 1
    /\ pc \in {"cleanup", "done"} => Cardinality(At("replace")) = 1
    /\ \A p \in At("replace") :
           /\ At("excluded") # {}
           /\ \A w \in At("write") \cup At("excluded") : w < p
    /\ \A c \in At("cleanup") : \E p \in At("replace") : p < c
    /\ pc = "cleanup" => CleanupArgument = db_strm
    /\ Cardinality(At("write")) * batch_size >= Len(issued)
    /\ (At("read") # {} /\ At("replace") = {}) => db_strm = strm_cache

C28_Witness ==
    /\ pc = "done"
    /\ runs = 2
    /\ log = <<"read", "read", "write", "excluded", "replace", "cleanup">>
    /\ strm_cache # EmptyMap
    /\ db_strm # strm_cache
    /\ excluded # <<>>

\* C29: right after a start_phase call the phase is not reported complete,
\* also when it had been completed before; it is complete again only after the
\* next complete_phase call.
C29_CompletionAfterReentry ==
    /\ call.op = "start_phase" => ~phases[call.phase].completed
    /\ (call.op = "complete_phase" /\ call.started_before) => phases[call.phase].completed

RECURSIVE Pending(_, _)
Pending(k, T) ==
    IF T = {} THEN 0
    ELSE LET t == CHOOSE x \in T : TRUE
         IN (IF tpc[t] = "lock" /\ k \in DOMAIN kwargs[t] THEN kwargs[t][k] ELSE 0)
            + Pending(k, T \ {t})

\* every delta of the calls that got the lock is in the counters
Applied == \A k \in StatKeys : stats[k] + Pending(k, Threads) = passed[k]

\* C21 as stated: when an update call is about to return after one of its
\* callbacks raised, its statistics mutation is applied and every registered
\* callback has been invoked for it.
C21_AllInvokedAfterRaise ==
    \A t \in Threads :
        (tpc[t] = "release" /\ raised[t]) =>
            (Applied /\ cb_index[t] = Len(Callbacks) + 1)

\* C21 amended: when an update call is about to return after one of its
\* callbacks raised, its statistics mutation is applied, and every registered
\* callback has been invoked for it unless shutdown was requested meanwhile;
\* a thread inside the call always reaches that return.
C21_RaiseContained ==
    \A t \in Threads :
        /\ (tpc[t] = "release" /\ raised[t]) =>
               (Applied /\ (~shutdown_flag => cb_index[t] = Len(Callbacks) + 1))
        /\ raised[t] => tpc[t] \in {"notify", "join", "release"}

C21_Witness ==
    \E t \in Threads :
        /\ tpc[t] = "release"
        /\ raised[t]
        /\ ~shutdown_flag
        /\ cb_index[t] = Len(Callbacks) + 1
        /\ stats["strm_created"] > 0

\* C22: the shutdown flag is never cleared once set; a call that began with
\* the flag set starts no callback, and when it is about to return its
\* statistics mutation is applied.
C22_ShutdownSuppressesOnly ==
    [][/\ shutdown_flag => shutdown_flag'
       /\ \A t \in Threads :
              late'[t] => (/\ worker'[t] = "none"
                           /\ tpc'[t] = "release" => Applied')]_vars

C22_Witness ==
    \E t \in Threads :
        /\ late[t]
        /\ tpc[t] = "release"
        /\ "strm_created" \in DOMAIN kwargs[t]
        /\ kwargs[t]["strm_created"] = 2
        /\ stats["strm_created"] >= 2
        /\ abandoned > 0

\* the lists of the cache lookup hold what this run made of its entries
AfterLookup == {"filter", "create", "batch", "replace", "cleanup", "done"}

\* C31: after the cache lookup every deduplicated entry is in exactly one of
\* to_check, reused_allowed, reused_excluded; an entry of to_check has its key
\* neither in the existing-media index nor in the pointer cache; after the
\* filtering an entry whose key is cached and not in the index is allowed
\* exactly if its record says so, under force-regenerate too; at the end of
\* the run every key of the cache the run read is in the persisted cache with
\* the same decision.
C31_ClassificationSplit ==
    /\ pc \in AfterLookup =>
           /\ Len(to_check) + Len(reused_allowed) + Len(reused_excluded) = Len(entries)
           /\ Range(to_check) \cup Range(reused_allowed) \cup Range(reused_excluded)
                  = Range(entries)
           /\ \A e \in Range(to_check) :
                  KeyOf(e) \notin DOMAIN existing /\ KeyOf(e) \notin DOMAIN strm_cache
    /\ pc \in AfterLookup \ {"filter"} =>
           \A e \in Range(entries) :
               (KeyOf(e) \in DOMAIN strm_cache /\ KeyOf(e) \notin DOMAIN existing) =>
                   /\ e \in Range(allowed) <=> strm_cache[KeyOf(e)].allowed = 1
                   /\ e \in Range(excluded) <=> strm_cache[KeyOf(e)].allowed = 0
    /\ pc = "done" =>
           \A k \in DOMAIN strm_cache :
               k \in DOMAIN db_strm /\ db_strm[k].allowed = strm_cache[k].allowed

C31_Witness ==
    /\ pc = "done"
    /\ force_regenerate
    /\ to_check # <<>>
    /\ \E e \in Range(reused_excluded) :
           /\ strm_cache[KeyOf(e)].url # e.url
           /\ db_strm[KeyOf(e)].allowed = 0
    /\ \E k \in DOMAIN strm_cache \ EntryKeys : strm_cache[k].allowed = 1

\* the phase whose body opens with the shutdown check of position p
ExitPhase(p) ==
    IF p = "scan" THEN "SCANNING_LOCAL"
    ELSE IF p = "parse" THEN "PARSING_M3U" ELSE "FILTERING_TMDB"

\* C32: no step of a run up to and including the shutdown check of Market
\* Filtering changes the persisted pointer cache or the output tree; a run
\* ends at a shutdown check only with the flag set, and then it has handed
\* nothing to the writer, has not replaced the cache, has not run the cleanup,
\* and the phase in which it ended is the last one started and is complete.
C32_EarlyExitFrame ==
    [][/\ pc \in {"scan", "parse", "lookup", "filter"} => (db_strm' = db_strm /\ disk' = disk)
       /\ pc' = "stopped" =>
              /\ pc \in CheckPoints
              /\ shutdown_flag
              /\ issued' = <<>>
              /\ Range(log') \subseteq {"read"}
              /\ ExitPhase(pc) \in DOMAIN phases'
              /\ phases'[ExitPhase(pc)].completed
              /\ \A q \in DOMAIN phases' : PhaseIndex(q) <= PhaseIndex(ExitPhase(pc))]_vars

C32_Witness ==
    /\ pc = "stopped"
    /\ runs = 2
    /\ db_strm # EmptyMap
    /\ DOMAIN disk # {}
    /\ log = <<"read">>
    /\ "FILTERING_TMDB" \in DOMAIN phases
    /\ phases["FILTERING_TMDB"].completed
    /\ phases["FILTERING_TMDB"].total > 0

C34_ReadersFinishInCall ==
    [][\A t \in Threads :
           /\ (worker[t] = "blocked" /\ worker'[t] # "blocked") => worker'[t] = "done"
           /\ worker'[t] # "none" => lock' # t]_vars

\* C35: a call of update_phase, batch_update_phase or complete_phase for a
\* phase that is not in the phase map leaves the phase map, the current phase
\* and the statistics as they were and reaches no callback notification.
C35_AbsentPhaseNoOp ==
    [][(/\ calls' = calls + 1
        /\ call'.op \in {"update_phase", "batch_update_phase", "complete_phase"}
        /\ call'.phase \notin DOMAIN phases)
       => (/\ phases' = phases
           /\ current_phase' = current_phase
           /\ stats' = stats
           /\ notified' = notified)]_vars

C35_Witness ==
    /\ call.op \in {"update_phase", "batch_update_phase"}
    /\ ~call.started_before
    /\ call.phase \notin DOMAIN phases
    /\ current_phase \in DOMAIN phases
    /\ notified = 1
    /\ calls = 3

Terminal == {"completed", "failed", "stopped"}

\* C36: every submitted job eventually has a terminal status (completed,
\* failed or stopped) and is no longer the current job of the manager, unless
\* the manager is shut down first.
C36_JobLiveness ==
    \A j \in 1..MaxJobs :
        (j \in DOMAIN jobs)
        ~> (\/ shutdown_event
            \/ (j \in DOMAIN jobs /\ jobs[j].status \in Terminal /\ current_job # j))

StoppedByUser(job) == job.status = "stopped" /\ job.error_message = "Stopped by user"

\* C37: when stop_current_job has returned True, the job it stopped has status
\* stopped and the message "Stopped by user"; a job with that status and
\* message keeps both in every later step.
C37_StopYieldsStopped ==
    [][/\ \A j \in DOMAIN jobs : StoppedByUser(jobs[j]) => StoppedByUser(jobs'[j])
       /\ stop_result'.ok => StoppedByUser(jobs'[stop_result'.job])]_vars

C37_Witness ==
    /\ stop_result.ok
    /\ StoppedByUser(jobs[stop_result.job])
    /\ shutdown_event
    /\ Len(jobs) = 3

\* C38: a job that is pending while a stop request of an earlier job is still
\* set is eventually started, unless the manager is shut down first.
C38_StaleStopHarmless ==
    \A j \in 1..MaxJobs :
        (j \in DOMAIN jobs /\ stop_requested /\ jobs[j].status = "pending")
        ~> (shutdown_event \/ (j \in DOMAIN jobs /\ jobs[j].status # "pending"))

\* C39: at most one job has status running and it is the current job; at most
\* one task of the processing loop is alive; a job starts only when no job
\* submitted before it is pending, and it starts as the current job.
C39_SingleRunner ==
    [][/\ Cardinality({ j \in DOMAIN jobs' : jobs'[j].status = "running" }) <= 1
       /\ \A j \in DOMAIN jobs' : jobs'[j].status = "running" => current_job' = j
       /\ loop_tasks' <= 1
       /\ \A j \in DOMAIN jobs :
              (jobs[j].status = "pending" /\ jobs'[j].status = "running") =>
                  /\ \A k \in 1..(j - 1) : jobs[k].status # "pending"
                  /\ current_job' = j]_vars

C39_Witness ==
    /\ current_job = 1
    /\ jobs[1].status = "running"
    /\ Len(jobs) = 3
    /\ jobs[2].status = "pending"
    /\ loop_tasks = 0
    /\ processing_task = "done"

====
